---- MODULE Spec2Model ----
(***************************************************************************)
(* Model of the pokervision request pipeline:                              *)
(*   src/functions/api/analyze.js  (two revisions of onRequestPost and     *)
(*                                  their helpers)                          *)
(*   src/server.mjs                (the Express handler)                   *)
(*                                                                         *)
(* JavaScript values are encoded as records of one fixed shape per         *)
(* position, with a kind field k, so that a field that is absent, null, a  *)
(* primitive or an object is always a value TLC can compare:               *)
(*   scalar  [k, n, s]      k in undef|null|num|nan|str|bool               *)
(*   array   [k, a]         k = "arr" for arrays                           *)
(*   object  [k, <fields>]  k = "obj" for objects                          *)
(* A value whose kind is not obj/arr keeps its sub-fields at their         *)
(* "undefined" defaults, so that record access models property access on   *)
(* a primitive (which yields undefined).                                   *)
(* Strings are sequences of tokens: a token is one character, or a word    *)
(* whose letters no operation looks into ("flop", "Qs").                   *)
(***************************************************************************)
EXTENDS Integers, Sequences, FiniteSets, TLC

VARIABLES
  handler,          \* which handler serves the request: express | cf1 | cf2
  strictMode,       \* env.STRICT_MODE !== 'false'            (cf2)
  upload,           \* the request body: none | image | malformed |
                    \* unreadable (a file that readFile fails on)
  pc,               \* position of the handler
  state,            \* local variable state
  strictErrorText,  \* local variable strictErrorText         (cf2)
  calls,            \* external model calls issued so far, with their replies
  response,         \* the response sent, or NoResponse
  unlinks,          \* number of fs.unlink attempts            (express)
  inp,              \* corrector harness: the input object
  out1,             \* corrector harness: enforceDeterministicCorrections(inp)
  out2,             \* corrector harness: enforceDeterministicCorrections(out1)
  raised,           \* corrector harness: a call of the corrector raised
  cpc,              \* corrector harness: number of applications done
  pin,              \* parser harness: the argument and how it was built
  pout,             \* parser harness: outcome of parseJsonLoose(pin.s)
  perr,             \* parser harness: the error parseJsonLoose raised
  ppc,              \* parser harness: number of applications done
  gin,              \* collector harness: the response envelope
  gout,             \* collector harness: outcome of getOutputText(gin)
  gpc,              \* collector harness: number of applications done
  reqs,             \* concurrent requests: upload, position, replies
                    \* received and response of each
  scopes,           \* concurrent requests: the bindings of the handler's
                    \* local variables, by scope
  files             \* concurrent requests: the files in the upload
                    \* directory                             (express)

vars == <<handler, strictMode, upload, pc, state, strictErrorText, calls,
          response, unlinks, inp, out1, out2, raised, cpc, pin, pout, perr,
          ppc, gin, gout, gpc, reqs, scopes, files>>

handlerVars == <<handler, strictMode, upload, pc, state, strictErrorText,
                 calls, response, unlinks>>

correctorVars == <<inp, out1, out2, raised, cpc>>

parserVars == <<pin, pout, perr, ppc>>

collectorVars == <<gin, gout, gpc>>

pairVars == <<reqs, scopes, files>>

harnessVars == <<correctorVars, parserVars, collectorVars, pairVars>>

-----------------------------------------------------------------------------
(* Bounds *)

\* longest board array drawn as corrector input
MaxBoard == 6

\* longest players array drawn as corrector input
MaxPlayers == 2

\* most pieces of prose and fence markers around the object in a parser
\* input, before and after it together
MaxProse == 3

\* most content parts in the output of a collector input, over all its
\* messages together
MaxParts == 3

-----------------------------------------------------------------------------
(* JavaScript scalars *)

UndefS == [k |-> "undef", n |-> 0, s |-> <<>>]

NullS == [k |-> "null", n |-> 0, s |-> <<>>]

NaNS == [k |-> "nan", n |-> 0, s |-> <<>>]

Num(i) == [k |-> "num", n |-> i, s |-> <<>>]

Str(cs) == [k |-> "str", n |-> 0, s |-> cs]

Bool(b) == [k |-> "bool", n |-> IF b THEN 1 ELSE 0, s |-> <<>>]

\* x == null  (true of null and undefined)
IsNullish(v) == v.k \in {"undef", "null"}

\* Boolean(x) / !!x for a scalar
TruthyS(v) ==
  CASE v.k = "undef" -> FALSE
    [] v.k = "null"  -> FALSE
    [] v.k = "nan"   -> FALSE
    [] v.k = "num"   -> v.n # 0
    [] v.k = "str"   -> Len(v.s) > 0
    [] v.k = "bool"  -> v.n = 1
    [] OTHER         -> TRUE

Whitespace == {" ", "\n"}

Digits == {"0", "1", "2", "3", "4", "5", "6", "7", "8", "9"}

DigitVal(c) ==
  CASE c = "0" -> 0 [] c = "1" -> 1 [] c = "2" -> 2 [] c = "3" -> 3
    [] c = "4" -> 4 [] c = "5" -> 5 [] c = "6" -> 6 [] c = "7" -> 7
    [] c = "8" -> 8 [] c = "9" -> 9

RECURSIVE TrimLeft(_)
TrimLeft(cs) ==
  IF cs # <<>> /\ Head(cs) \in Whitespace THEN TrimLeft(Tail(cs)) ELSE cs

RECURSIVE TrimRight(_)
TrimRight(cs) ==
  IF cs # <<>> /\ cs[Len(cs)] \in Whitespace
    THEN TrimRight(SubSeq(cs, 1, Len(cs) - 1))
    ELSE cs

\* String.prototype.trim
Trim(cs) == TrimRight(TrimLeft(cs))

RECURSIVE DecimalValue(_)
DecimalValue(cs) ==
  IF cs = <<>> THEN 0
  ELSE 10 * DecimalValue(SubSeq(cs, 1, Len(cs) - 1)) + DigitVal(cs[Len(cs)])

\* Number(x) for a string: surrounding whitespace is ignored, the empty
\* string is 0, a run of decimal digits is its value, anything else is NaN
StringToNumber(cs) ==
  LET t == Trim(cs) IN
    IF t = <<>> THEN Num(0)
    ELSE IF \A i \in 1..Len(t) : t[i] \in Digits THEN Num(DecimalValue(t))
    ELSE NaNS

\* Number(x)
ToNumber(v) ==
  CASE v.k = "undef" -> NaNS
    [] v.k = "null"  -> Num(0)
    [] v.k = "nan"   -> NaNS
    [] v.k = "num"   -> v
    [] v.k = "str"   -> StringToNumber(v.s)
    [] v.k = "bool"  -> Num(v.n)

-----------------------------------------------------------------------------
(* Table-state shaped values *)

UndefA == [k |-> "undef", a |-> <<>>]

Arr(seq) == [k |-> "arr", a |-> seq]

\* a value that is neither an array nor nullish, where an array is expected
NotArr == [k |-> "str", a |-> <<>>]

UndefStakes == [k |-> "undef", sb |-> UndefS, bb |-> UndefS]

UndefTable ==
  [k |-> "undef", board |-> UndefA, street |-> UndefS, pot |-> UndefS,
   minRaise |-> UndefS, maxBet |-> UndefS, stakes |-> UndefStakes]

UndefHero ==
  [k |-> "undef", stack |-> UndefS, committedThisStreet |-> UndefS,
   hole |-> UndefA]

UndefPlayer ==
  [k |-> "undef", seat |-> UndefS, stack |-> UndefS,
   committedThisStreet |-> UndefS, position |-> UndefS, inHand |-> UndefS]

UndefState ==
  [k |-> "undef", table |-> UndefTable, hero |-> UndefHero,
   players |-> UndefA]

\* the same defaults under another kind: null, or a primitive
OfKind(dflt, kind) == [dflt EXCEPT !.k = kind]

\* kinds that are falsy whatever their content
FalsyKinds == {"undef", "null", "zero"}

\* Boolean(x) for a value in an object position; "zero" stands for a falsy
\* primitive (0, "", false) and "prim" for a truthy primitive
Truthy(v) == v.k \notin FalsyKinds

IsArray(v) == v.k = "arr"

IsObject(v) == v.k = "obj"

-----------------------------------------------------------------------------
(* enforceDeterministicCorrections: analyze.js 329-359                      *)
(* The function mutates its argument statement by statement inside one     *)
(* try block; a TypeError abandons the remaining statements and keeps the  *)
(* mutations made so far.  Each statement is an operator to the object     *)
(* after it and whether it threw.  The file is an ES module (strict mode): *)
(* assigning a property on a primitive throws.                             *)

Ran(s) == [s |-> s, thrown |-> FALSE]

Threw(s) == [s |-> s, thrown |-> TRUE]

RECURSIVE FilterBoolean(_)
\* array.filter(Boolean)
FilterBoolean(seq) ==
  IF seq = <<>> THEN <<>>
  ELSE IF TruthyS(Head(seq)) THEN <<Head(seq)>> \o FilterBoolean(Tail(seq))
  ELSE FilterBoolean(Tail(seq))

\* { 0: 'preflop', 3: 'flop', 4: 'turn', 5: 'river' }[n]
StreetByLen(n) ==
  CASE n = 0 -> Str(<<"preflop">>)
    [] n = 3 -> Str(<<"flop">>)
    [] n = 4 -> Str(<<"turn">>)
    [] n = 5 -> Str(<<"river">>)
    [] OTHER -> UndefS

\* lines 331-333
correctStreet(s) ==
  LET board == IF IsArray(s.table.board)
                 THEN FilterBoolean(s.table.board.a) ELSE <<>>
      streetByLen == StreetByLen(Len(board))
  IN  IF ~TruthyS(streetByLen) THEN Ran(s)
      ELSE IF IsNullish(s) THEN Threw(s)             \* s.table on null
      ELSE IF ~Truthy(s.table) THEN Ran(s)
      ELSE IF ~IsObject(s.table) THEN Threw(s)       \* property on primitive
      ELSE Ran([s EXCEPT !.table.street = streetByLen])

\* line 336, skipped when an earlier statement threw (as are all below)
coercePot(r) ==
  IF r.thrown \/ IsNullish(r.s.table.pot) THEN r
  ELSE Ran([r.s EXCEPT !.table.pot = ToNumber(r.s.table.pot)])

\* line 337
coerceMinRaise(r) ==
  IF r.thrown \/ IsNullish(r.s.table.minRaise) THEN r
  ELSE Ran([r.s EXCEPT !.table.minRaise =
              IF r.s.table.minRaise.k = "null" THEN NullS
              ELSE ToNumber(r.s.table.minRaise)])

\* line 338
coerceMaxBet(r) ==
  IF r.thrown \/ IsNullish(r.s.table.maxBet) THEN r
  ELSE Ran([r.s EXCEPT !.table.maxBet =
              IF r.s.table.maxBet.k = "null" THEN NullS
              ELSE ToNumber(r.s.table.maxBet)])

\* line 339
coerceSb(r) ==
  IF r.thrown \/ IsNullish(r.s.table.stakes.sb) THEN r
  ELSE Ran([r.s EXCEPT !.table.stakes.sb = ToNumber(r.s.table.stakes.sb)])

\* line 340
coerceBb(r) ==
  IF r.thrown \/ IsNullish(r.s.table.stakes.bb) THEN r
  ELSE Ran([r.s EXCEPT !.table.stakes.bb = ToNumber(r.s.table.stakes.bb)])

\* line 341
coerceHeroStack(r) ==
  IF r.thrown \/ IsNullish(r.s.hero.stack) THEN r
  ELSE Ran([r.s EXCEPT !.hero.stack = ToNumber(r.s.hero.stack)])

\* line 342
coerceHeroCommitted(r) ==
  IF r.thrown \/ IsNullish(r.s.hero.committedThisStreet) THEN r
  ELSE Ran([r.s EXCEPT !.hero.committedThisStreet =
              IF r.s.hero.committedThisStreet.k = "null" THEN NullS
              ELSE ToNumber(r.s.hero.committedThisStreet)])

\* line 343
defaultHole(r) ==
  IF r.thrown \/ IsArray(r.s.hero.hole) THEN r
  ELSE IF ~IsObject(r.s.hero) THEN Threw(r.s)  \* hero missing or a primitive
  ELSE Ran([r.s EXCEPT !.hero.hole = Arr(<<>>)])

\* normalizePlayer with !p.inHand written for !!p.inHand
normalizePlayer_negatesInHand(p) ==
  [k |-> "obj",
   seat |-> IF IsNullish(p.seat) THEN NullS ELSE ToNumber(p.seat),
   stack |-> IF IsNullish(p.stack) THEN NullS ELSE ToNumber(p.stack),
   committedThisStreet |->
     IF IsNullish(p.committedThisStreet) THEN NullS
     ELSE ToNumber(p.committedThisStreet),
   position |-> IF IsNullish(p.position) THEN NullS ELSE p.position,
   inHand |-> Bool(~TruthyS(p.inHand))]

\* lines 346-353, the arrow function applied to one entry
normalizePlayer(p) ==
  [k |-> "obj",
   seat |-> IF IsNullish(p.seat) THEN NullS ELSE ToNumber(p.seat),
   stack |-> IF IsNullish(p.stack) THEN NullS ELSE ToNumber(p.stack),
   committedThisStreet |->
     IF IsNullish(p.committedThisStreet) THEN NullS
     ELSE ToNumber(p.committedThisStreet),
   position |-> IF IsNullish(p.position) THEN NullS ELSE p.position,
   inHand |-> Bool(TruthyS(p.inHand))]

\* lines 345-354; p.seat on a null or undefined entry throws inside map,
\* before s.players is assigned
normalizePlayers(r) ==
  IF r.thrown \/ ~IsArray(r.s.players) THEN r
  ELSE IF \E i \in 1..Len(r.s.players.a) : IsNullish(r.s.players.a[i])
    THEN Threw(r.s)
  ELSE Ran([r.s EXCEPT !.players =
              Arr([i \in 1..Len(r.s.players.a) |->
                     normalizePlayer(r.s.players.a[i])])])

\* lines 330-355: the statements of the try block in order
tryBlock(s) ==
  normalizePlayers(defaultHole(coerceHeroCommitted(coerceHeroStack(
    coerceBb(coerceSb(coerceMaxBet(coerceMinRaise(coercePot(
      correctStreet(s))))))))))

\* the function without its catch clause: a throw of the try block escapes
catchBlock_rethrows(r) == [raised |-> r.thrown, value |-> r.s]

\* lines 355-358: the catch swallows a throw of the try block and s is
\* returned as it then is
catchBlock(r) == [raised |-> FALSE, value |-> r.s]

\* one call of the function: whether it raised, and the value it returned
correctorCall(s) == catchBlock(tryBlock(s))

\* lines 329-359: the value returned
enforceDeterministicCorrections(s) == correctorCall(s).value

-----------------------------------------------------------------------------
(* parseJsonLoose: analyze.js 10-20 and 298-308, server.mjs 82-106          *)
(* Text is a sequence of tokens: the characters { } [ ] space newline, the *)
(* backtick (written "BT"), decimal digits, letter words, and member       *)
(* tokens, each standing for the member text of one fixture object ("K1"   *)
(* for the members of StateK1).  There is no token for the double quote.   *)

\* three backticks; "BT" is the backtick character
Fence == <<"BT", "BT", "BT">>

\* tokens matched by [a-z] under the i flag
Letters == {"a", "json", "null"}

\* member tokens: the members of a table state, or of a strategy reply
StateMembers == {"K1", "K2", "K3"}

MemberTokens == StateMembers \cup {"R"}

\* String.prototype.startsWith
StartsWith(cs, pre) ==
  Len(cs) >= Len(pre) /\ SubSeq(cs, 1, Len(pre)) = pre

\* String.prototype.endsWith
EndsWith(cs, suf) ==
  Len(cs) >= Len(suf) /\ SubSeq(cs, Len(cs) - Len(suf) + 1, Len(cs)) = suf

\* cs.slice(n) for 0 <= n
DropFirst(cs, n) == SubSeq(cs, n + 1, Len(cs))

RECURSIVE DropLetters(_)
\* the rest of cs after the longest prefix matching [a-z]*
DropLetters(cs) ==
  IF cs # <<>> /\ Head(cs) \in Letters THEN DropLetters(Tail(cs)) ELSE cs

\* t.replace(/^FENCE[a-z]*\n?/i, empty) for a t that starts with a fence
StripOpeningFence(cs) ==
  LET rest == DropLetters(DropFirst(cs, 3))
  IN  IF rest # <<>> /\ Head(rest) = "\n" THEN Tail(rest) ELSE rest

\* t.replace(/FENCE$/, empty)
StripClosingFence(cs) ==
  IF EndsWith(cs, Fence) THEN SubSeq(cs, 1, Len(cs) - 3) ELSE cs

RECURSIVE RemoveFences(_)
\* t.replace(/FENCE/g, empty): every match, left to right, without overlap
RemoveFences(cs) ==
  IF cs = <<>> THEN <<>>
  ELSE IF StartsWith(cs, Fence) THEN RemoveFences(DropFirst(cs, 3))
  ELSE <<Head(cs)>> \o RemoveFences(Tail(cs))

\* t.indexOf(c), 1-based, 0 when absent
IndexOf(cs, c) ==
  IF \E i \in 1..Len(cs) : cs[i] = c
    THEN CHOOSE i \in 1..Len(cs) :
           cs[i] = c /\ \A j \in 1..(i - 1) : cs[j] # c
    ELSE 0

\* t.lastIndexOf(c), 1-based, 0 when absent
LastIndexOf(cs, c) ==
  IF \E i \in 1..Len(cs) : cs[i] = c
    THEN CHOOSE i \in 1..Len(cs) :
           cs[i] = c /\ \A j \in (i + 1)..Len(cs) : cs[j] # c
    ELSE 0

RECURSIVE RemoveWhitespace(_)
RemoveWhitespace(cs) ==
  IF cs = <<>> THEN <<>>
  ELSE IF Head(cs) \in Whitespace THEN RemoveWhitespace(Tail(cs))
  ELSE <<Head(cs)>> \o RemoveWhitespace(Tail(cs))

\* a parsed JSON value: its kind and, for an object, its member token
\* ("" for the empty object)
JsonValue(kind, member) == [k |-> kind, member |-> member]

NoJson == JsonValue("undef", "")

ParseOk(v) == [ok |-> TRUE, val |-> v]

ParseFail == [ok |-> FALSE, val |-> NoJson]

RECURSIVE JSONparse(_)
\* JSON.parse on the token grammar
\*   value  ::= ws (number | "null" | object | array) ws
\*   object ::= "{" ws "}" | "{" ws member ws "}"
\*   array  ::= "[" ws "]" | "[" value "]"
\*   number ::= "0" | nonzero digit, digits
\* Whitespace is legal only between the tokens of a value, never inside a
\* number.  An array is a truthy value that is no table state and has no
\* member: kind "prim".
JSONparse(cs) ==
  LET t == Trim(cs)
      inner == IF Len(t) >= 2 THEN RemoveWhitespace(SubSeq(t, 2, Len(t) - 1))
               ELSE <<>>
  IN  IF t = <<>> THEN ParseFail
      ELSE IF Len(t) >= 2 /\ t[1] = "[" /\ t[Len(t)] = "]"
        THEN IF inner = <<>> \/ JSONparse(SubSeq(t, 2, Len(t) - 1)).ok
               THEN ParseOk(JsonValue("prim", ""))
               ELSE ParseFail
      ELSE IF \A i \in 1..Len(t) : t[i] \in Digits
        THEN IF Len(t) > 1 /\ t[1] = "0" THEN ParseFail
             ELSE ParseOk(JsonValue(IF DecimalValue(t) = 0 THEN "zero"
                                    ELSE "prim", ""))
      ELSE IF t = <<"null">> THEN ParseOk(JsonValue("null", ""))
      ELSE IF Len(t) >= 2 /\ t[1] = "{" /\ t[Len(t)] = "}"
        THEN IF inner = <<>> THEN ParseOk(JsonValue("obj", ""))
             ELSE IF Len(inner) = 1 /\ inner[1] \in MemberTokens
               THEN ParseOk(JsonValue("obj", inner[1]))
             ELSE ParseFail
      ELSE ParseFail

\* the argument after fence removal: lines 300-302
CleanFences(cs) ==
  LET t == Trim(cs)
  IN  IF StartsWith(t, Fence)
        THEN Trim(StripClosingFence(StripOpeningFence(t)))
        ELSE Trim(RemoveFences(t))

\* parseJsonLoose without the fallback to the first { ... last } slice
parseJsonLoose_noSlice(s) ==
  IF ~TruthyS(s) \/ s.k # "str" THEN ParseFail
  ELSE JSONparse(CleanFences(s.s))

\* parseJsonLoose(s), s a scalar; ok = FALSE when it throws
parseJsonLoose(s) ==
  IF ~TruthyS(s) \/ s.k # "str" THEN ParseFail       \* 'Empty response'
  ELSE LET t == CleanFences(s.s)
           direct == JSONparse(t)
           a == IndexOf(t, "{")
           b == LastIndexOf(t, "}")
       IN  IF direct.ok THEN direct
           ELSE IF a # 0 /\ b > a THEN JSONparse(SubSeq(t, a, b))
           ELSE ParseFail                              \* 'Could not parse JSON'

-----------------------------------------------------------------------------
(* getOutputText: analyze.js 23-38 and 311-326 *)

\* a content part {text: x}, or a part that is null
Part(x) == [k |-> "obj", text |-> x]

NullPart == [k |-> "null", text |-> UndefS]

\* an output message {content: [...]}; a message without content; null
Msg(parts) == [k |-> "obj", content |-> Arr(parts)]

MsgNoContent == [k |-> "obj", content |-> UndefA]

NullMsg == [k |-> "null", content |-> UndefA]

RECURSIVE PartTexts(_)
\* lines 319-321: the trimmed text of each part whose text is a non-blank
\* string
PartTexts(parts) ==
  IF parts = <<>> THEN <<>>
  ELSE LET p == Head(parts)
       IN  (IF p.text.k = "str" /\ Trim(p.text.s) # <<>>
              THEN <<Trim(p.text.s)>> ELSE <<>>)
             \o PartTexts(Tail(parts))

RECURSIVE MsgTexts(_)
\* lines 316-323
MsgTexts(msgs) ==
  IF msgs = <<>> THEN <<>>
  ELSE (IF IsArray(Head(msgs).content)
          THEN PartTexts(Head(msgs).content.a) ELSE <<>>)
         \o MsgTexts(Tail(msgs))

RECURSIVE JoinNewline(_)
\* out.join(newline)
JoinNewline(texts) ==
  IF texts = <<>> THEN <<>>
  ELSE IF Len(texts) = 1 THEN texts[1]
  ELSE texts[1] \o <<"\n">> \o JoinNewline(Tail(texts))

\* getOutputText(obj) for a response envelope obj; thrown when the call of
\* .trim() on a truthy output_text that is no string raises a TypeError
getOutputText(obj) ==
  IF TruthyS(obj.output_text) /\ obj.output_text.k # "str"
    THEN [thrown |-> TRUE, text |-> <<>>]
  ELSE IF TruthyS(obj.output_text) /\ Trim(obj.output_text.s) # <<>>
    THEN [thrown |-> FALSE, text |-> Trim(obj.output_text.s)]
  ELSE [thrown |-> FALSE,
        text |-> Trim(JoinNewline(IF IsArray(obj.output)
                                    THEN MsgTexts(obj.output.a) ELSE <<>>))]

-----------------------------------------------------------------------------
(* Inputs of the corrector harness *)

\* all sequences over S of length 0..n
SeqsUpTo(S, n) == UNION {[1..m -> S] : m \in 0..n}

\* board entries: a card, or null (the prompt asks for null where something
\* is unreadable)
BoardEntries == {Str(<<"Qs">>), NullS}

BoardValues == {Arr(q) : q \in SeqsUpTo(BoardEntries, MaxBoard)}
                 \cup {UndefA, NotArr}

StreetValues ==
  {UndefS, NullS, Str(<<"preflop">>), Str(<<"flop">>), Str(<<"turn">>),
   Str(<<"river">>)}

\* values met in numeric fields
NumericValues ==
  {UndefS, NullS, Num(0), Num(12), Str(<<"1", "2">>), Str(<<" ", "7", " ">>),
   Str(<<"a", "b">>), Str(<<>>), Bool(TRUE)}

ObjectKinds == {"obj", "undef", "null", "zero", "prim"}

GoodStakes == [k |-> "obj", sb |-> Num(1), bb |-> Num(2)]

GoodTable ==
  [k |-> "obj", board |-> Arr(<<Str(<<"Qs">>), Str(<<"7d">>), Str(<<"2c">>)>>),
   street |-> Str(<<"flop">>), pot |-> Num(12), minRaise |-> Num(2),
   maxBet |-> NullS, stakes |-> GoodStakes]

GoodHero ==
  [k |-> "obj", stack |-> Num(100), committedThisStreet |-> Num(3),
   hole |-> Arr(<<Str(<<"Ah">>), Str(<<"Kh">>)>>)]

GoodPlayer ==
  [k |-> "obj", seat |-> Num(1), stack |-> Num(48),
   committedThisStreet |-> Num(1), position |-> Str(<<"SB">>),
   inHand |-> Bool(TRUE)]

GoodState ==
  [k |-> "obj", table |-> GoodTable, hero |-> GoodHero,
   players |-> Arr(<<GoodPlayer>>)]

PlayerValues ==
  {[k |-> "obj", seat |-> se, stack |-> NullS, committedThisStreet |-> UndefS,
    position |-> UndefS, inHand |-> ih] :
      se \in {UndefS, Str(<<"3">>)}, ih \in {UndefS, Num(1), Bool(FALSE)}}
    \cup {[GoodPlayer EXCEPT !.stack = Str(<<"a", "b">>)],
          [GoodPlayer EXCEPT !.committedThisStreet = Str(<<"4">>),
                             !.inHand = Str(<<"yes">>)],
          OfKind(UndefPlayer, "null"), OfKind(UndefPlayer, "prim")}

PlayersValues ==
  {Arr(q) : q \in SeqsUpTo(PlayerValues, MaxPlayers)} \cup {UndefA, NotArr}

HeroValues ==
  {[k |-> "obj", stack |-> st, committedThisStreet |-> c, hole |-> h] :
      st \in NumericValues, c \in NumericValues,
      h \in {UndefA, NotArr, Arr(<<>>), Arr(<<Str(<<"Ah">>)>>)}}
    \cup {OfKind(UndefHero, kd) : kd \in ObjectKinds \ {"obj"}}

StakesValues ==
  {[k |-> "obj", sb |-> a, bb |-> b] : a \in NumericValues,
                                       b \in NumericValues}
    \cup {OfKind(UndefStakes, kd) : kd \in ObjectKinds \ {"obj"}}

\* boards and streets, with and without a hero
BoardInputs ==
  {[GoodState EXCEPT !.table.board = b, !.table.street = st, !.hero = h] :
      b \in BoardValues, st \in StreetValues, h \in {GoodHero, UndefHero}}

\* the numeric fields of the table
TableNumericInputs ==
  {[GoodState EXCEPT !.table.pot = a, !.table.minRaise = b,
                     !.table.maxBet = c] :
      a \in NumericValues, b \in NumericValues, c \in NumericValues}

StakesInputs == {[GoodState EXCEPT !.table.stakes = x] : x \in StakesValues}

\* the hero, beside a table that is an object or a truthy primitive
HeroInputs ==
  {[GoodState EXCEPT !.table = tb, !.hero = h, !.players = ps] :
      tb \in {GoodTable, OfKind(UndefTable, "prim")},
      h \in HeroValues, ps \in {Arr(<<>>), UndefA}}

PlayerInputs ==
  {[GoodState EXCEPT !.players = ps, !.hero = h] :
      ps \in PlayersValues, h \in {GoodHero, UndefHero}}

\* objects missing table, hero or players, and values that are no object
ShapeInputs ==
  {[k |-> "obj", table |-> tb, hero |-> h, players |-> ps] :
      tb \in {GoodTable} \cup
               {OfKind(UndefTable, kd) : kd \in ObjectKinds \ {"obj"}},
      h \in {GoodHero} \cup
               {OfKind(UndefHero, kd) : kd \in ObjectKinds \ {"obj"}},
      ps \in {Arr(<<GoodPlayer>>), Arr(<<>>), UndefA, NotArr}}
    \cup {OfKind(UndefState, kd) : kd \in ObjectKinds \ {"obj"}}

CorrectorInputs ==
  BoardInputs \cup TableNumericInputs \cup StakesInputs \cup HeroInputs
    \cup PlayerInputs \cup ShapeInputs

-----------------------------------------------------------------------------
(* Inputs of the parser harness: text built from pieces of prose and fence *)
(* markers before and after at most one JSON object                         *)

\* a letter, a line break, braces and brackets in prose, a fence marker
Pieces == {<<"a">>, <<"\n">>, <<"{">>, <<"}">>, <<"[">>, <<"]">>, Fence}

RECURSIVE Flatten(_)
\* the pieces written one after the other
Flatten(ps) == IF ps = <<>> THEN <<>> ELSE Head(ps) \o Flatten(Tail(ps))

\* the text of the object in the middle, or no object
Mids == {<<>>, <<"{", "K1", "}">>, <<"{", "}">>}

\* an argument that is a string, with the parts it was built from
ParserInput(pre, mid, suf) ==
  [pre |-> pre, mid |-> mid, suf |-> suf, s |-> Str(pre \o mid \o suf)]

\* an argument that is no string
NoText(v) == [pre |-> <<>>, mid |-> <<>>, suf |-> <<>>, s |-> v]

\* the pieces q with the object mid after the first c of them
SplitText(q, c, mid) ==
  ParserInput(Flatten(SubSeq(q, 1, c)), mid, Flatten(SubSeq(q, c + 1, Len(q))))

\* the fenced reply of the prompt's example, and arguments that are no string
OtherParserInputs ==
  {ParserInput(Fence \o <<"json", "\n">>, <<"{", "K1", "}">>,
               <<"\n">> \o Fence)}
    \cup {NoText(v) : v \in {UndefS, NullS, Num(5), Bool(TRUE)}}

-----------------------------------------------------------------------------
(* Inputs of the collector harness: response envelopes *)

EmptyEnvelope ==
  [output_parsed |-> UndefState, output_text |-> UndefS, output |-> UndefA]

Envelope(ot, out) == [EmptyEnvelope EXCEPT !.output_text = ot, !.output = out]

\* a part that is null, parts without text or with a text that is no
\* string, a blank text, two texts to trim
PartValues ==
  {NullPart, Part(UndefS), Part(Num(5)), Part(Str(<<"\n">>)),
   Part(Str(<<" ", "a">>)), Part(Str(<<"b", "\n">>))}

\* a message whose content is no array
MsgBadContent == [k |-> "obj", content |-> NotArr]

\* what may stand between two messages
Fillers == {<<>>, <<NullMsg>>, <<MsgNoContent>>, <<MsgBadContent>>}

\* the parts q spread over two messages, the first c of them in the first,
\* with f between the two
SplitOutput(q, c, f) ==
  Arr(<<Msg(SubSeq(q, 1, c))>> \o f \o <<Msg(SubSeq(q, c + 1, Len(q)))>>)

OutputTextValues ==
  {UndefS, NullS, Str(<<>>), Str(<<"\n">>), Str(<<" ", "c", " ">>), Num(0),
   Num(5), Bool(TRUE)}

\* every output_text beside an output that is absent, no array, empty, or
\* one message with one text
OtherCollectorInputs ==
  {Envelope(ot, out) :
     ot \in OutputTextValues,
     out \in {UndefA, NotArr, Arr(<<>>),
              Arr(<<Msg(<<Part(Str(<<"a">>))>>)>>)}}

-----------------------------------------------------------------------------
(* Fixtures of the handler model: what the model API may answer *)

\* a complete table state whose street contradicts its board and whose pot
\* is a string
StateK1 ==
  [GoodState EXCEPT !.table.street = Str(<<"preflop">>),
                    !.table.pot = Str(<<"1", "2">>)]

\* another complete table state, as a self-check may return it
StateK2 ==
  [GoodState EXCEPT !.table.board =
                      Arr(<<Str(<<"Qs">>), Str(<<"7d">>), Str(<<"2c">>),
                            Str(<<"9h">>)>>),
                    !.table.pot = Num(20)]

\* a table state without hero
StateK3 == [GoodState EXCEPT !.hero = UndefHero]

\* {} : an object with no members
\* a turn board whose second card was unreadable and reported as null
StateK4 ==
  [GoodState EXCEPT !.table.board =
                      Arr(<<Str(<<"Qs">>), NullS, Str(<<"2c">>),
                            Str(<<"9h">>)>>),
                    !.table.street = Str(<<"turn">>)]

EmptyObject == OfKind(UndefState, "obj")

NullState == OfKind(UndefState, "null")

\* the table state a parsed JSON value is, read as the variable state
AsState(jv) ==
  CASE jv.k = "obj" /\ jv.member = "K1" -> StateK1
    [] jv.k = "obj" /\ jv.member = "K2" -> StateK2
    [] jv.k = "obj" /\ jv.member = "K3" -> StateK3
    [] jv.k = "obj" /\ jv.member \notin StateMembers -> EmptyObject
    [] OTHER -> OfKind(UndefState, jv.k)

\* rec.recommendation is defined: rec is the object with the member R
HasRecommendation(jv) == jv.k = "obj" /\ jv.member = "R"

\* replies of a model call: the call raises; or an HTTP response with a
\* status, a body text, and, when the body is JSON, its envelope
ThrowReply ==
  [t |-> "throw", ok |-> FALSE, status |-> 0, errText |-> <<>>,
   jsonOk |-> FALSE, env |-> EmptyEnvelope]

PendingReply == [ThrowReply EXCEPT !.t = "pending"]

ErrorReply(status, text) ==
  [t |-> "http", ok |-> FALSE, status |-> status, errText |-> text,
   jsonOk |-> FALSE, env |-> EmptyEnvelope]

\* status 200 with a body that is not JSON
BadBodyReply ==
  [t |-> "http", ok |-> TRUE, status |-> 200, errText |-> <<>>,
   jsonOk |-> FALSE, env |-> EmptyEnvelope]

EnvelopeReply(env) ==
  [t |-> "http", ok |-> TRUE, status |-> 200, errText |-> <<>>,
   jsonOk |-> TRUE, env |-> env]

ParsedReply(st) == EnvelopeReply([EmptyEnvelope EXCEPT !.output_parsed = st])

TextReply(cs) == EnvelopeReply([EmptyEnvelope EXCEPT !.output_text = Str(cs)])

PartsReply(cs) ==
  EnvelopeReply([EmptyEnvelope EXCEPT
                   !.output = Arr(<<Msg(<<Part(Str(cs))>>)>>)])

\* output_text is a number
NonStringTextReply ==
  EnvelopeReply([EmptyEnvelope EXCEPT !.output_text = Num(5)])

Garbage == <<"a", " ", "a">>

\* text that is JSON but no object: the number 12
NumberText == <<"1", "2">>

ObjectText(member) == <<"{", member, "}">>

FencedText(member) ==
  Fence \o <<"json", "\n", "{", member, "}", "\n">> \o Fence

ProseText(member) == <<"a", " ", "{", member, "}", " ", "a">>

ExtractionReplies ==
  {ThrowReply, ErrorReply(500, <<"quota">>), ErrorReply(503, <<>>),
   BadBodyReply, EnvelopeReply(EmptyEnvelope), NonStringTextReply,
   ParsedReply(StateK1), ParsedReply(StateK3),
   TextReply(ObjectText("K1")), TextReply(FencedText("K1")),
   PartsReply(ProseText("K3")), TextReply(ObjectText("K3")),
   TextReply(NumberText), TextReply(Garbage)}

SelfCheckReplies ==
  {ThrowReply, ErrorReply(500, <<"quota">>), BadBodyReply,
   EnvelopeReply(EmptyEnvelope), NonStringTextReply,
   ParsedReply(StateK2), ParsedReply(StateK4), TextReply(ObjectText("K2")),
   TextReply(ObjectText("K3")), TextReply(NumberText), TextReply(Garbage)}

StrategyReplies ==
  {ThrowReply, ErrorReply(500, <<"quota">>), BadBodyReply,
   EnvelopeReply(EmptyEnvelope), TextReply(ObjectText("R")),
   PartsReply(FencedText("R")), TextReply(<<"{", "}">>),
   TextReply(<<"null">>), TextReply(Garbage), NonStringTextReply}

-----------------------------------------------------------------------------
(* Responses *)

NoResponse ==
  [status |-> 0, error |-> "", details |-> <<>>, raw |-> UndefS,
   state |-> UndefState, hasState |-> FALSE, hasRecommendation |-> FALSE]

ErrorResponse(status, error, details) ==
  [NoResponse EXCEPT !.status = status, !.error = error, !.details = details]

\* onRequestPost without its try/catch: the exception leaves the handler
\* and no response is built
ServerError_escapes(message) == NoResponse

\* the catch of onRequestPost: analyze.js 279-281 and 686-688
ServerError(message) == ErrorResponse(500, "Server error", message)

\* analyze.js 108, 502; server.mjs 139
NoImageResponse == ErrorResponse(400, "No image uploaded", <<>>)

\* analyze.js 172; server.mjs 181
VisionParseFailure(raw) ==
  [ErrorResponse(422, "Failed to parse JSON from vision output", <<>>)
     EXCEPT !.raw = raw]

\* analyze.js 177; server.mjs 185
IncompleteExtraction(st) ==
  [ErrorResponse(422, "Incomplete extraction", <<>>)
     EXCEPT !.state = st, !.hasState = TRUE]

\* analyze.js 268, 273, 675, 680; server.mjs 225
StrategyParseFailure(raw, st) ==
  [ErrorResponse(422, "Failed to parse strategy JSON", <<>>)
     EXCEPT !.raw = raw, !.state = st, !.hasState = TRUE]

\* analyze.js 275-277, 682-684; server.mjs 228
SuccessResponse(st, rec) ==
  [NoResponse EXCEPT !.status = 200, !.state = st, !.hasState = TRUE,
                     !.hasRecommendation = HasRecommendation(rec)]

\* the shape check: analyze.js 176; server.mjs 184
ShapeOk(st) == Truthy(st.table) /\ Truthy(st.hero) /\ IsArray(st.players)

-----------------------------------------------------------------------------
(* Steps of the handlers.  A step is the code that runs from the return of  *)
(* one awaited model call to the next awaited call or to the response; its *)
(* result is either the response or the next call with the locals.         *)

Respond(resp) ==
  [next |-> "done", resp |-> resp, state |-> UndefState,
   strictErrorText |-> NullS]

CallNext(kind, st, errText) ==
  [next |-> kind, resp |-> NoResponse, state |-> st,
   strictErrorText |-> errText]

FetchFailed == <<"fetch failed">>

BodyNotJson == <<"Unexpected token">>

TypeError == <<"TypeError">>

CouldNotParse == <<"Could not parse JSON">>

\* StrategyStep without the check of the status (analyze.js 667-670)
StrategyStep_ignoresStatus(r, st) ==
  IF r.t = "throw" THEN Respond(ServerError(FetchFailed))
  ELSE IF ~r.jsonOk THEN Respond(ServerError(BodyNotJson))
  ELSE LET got == getOutputText(r.env)
           rec == parseJsonLoose(Str(got.text))
       IN  IF got.thrown THEN Respond(ServerError(TypeError))
           ELSE IF got.text = <<>>
             THEN Respond(StrategyParseFailure(Str(got.text), st))
           ELSE IF ~rec.ok
             THEN Respond(StrategyParseFailure(Str(got.text), st))
           ELSE IF IsNullish(rec.val)
             THEN Respond(ServerError(TypeError))
           ELSE Respond(SuccessResponse(st, rec.val))

\* the strategy stage after its call returned: analyze.js 260-277 and
\* 667-684
StrategyStep(r, st) ==
  IF r.t = "throw" THEN Respond(ServerError(FetchFailed))
  ELSE IF ~r.ok
    THEN Respond(ErrorResponse(500, "OpenAI strategy error", r.errText))
  ELSE IF ~r.jsonOk THEN Respond(ServerError(BodyNotJson))
  ELSE LET got == getOutputText(r.env)
           rec == parseJsonLoose(Str(got.text))
       IN  IF got.thrown THEN Respond(ServerError(TypeError))
           ELSE IF got.text = <<>>
             THEN Respond(StrategyParseFailure(Str(got.text), st))
           ELSE IF ~rec.ok
             THEN Respond(StrategyParseFailure(Str(got.text), st))
           ELSE IF IsNullish(rec.val)           \* rec.recommendation on null
             THEN Respond(ServerError(TypeError))
           ELSE Respond(SuccessResponse(st, rec.val))

\* correctedState of the self-check pass: analyze.js 212-215 and 619-622;
\* thrown when getOutputText or parseJsonLoose raises
CorrectedState(env) ==
  LET got == getOutputText(env)
      pr == parseJsonLoose(Str(got.text))
  IN  IF Truthy(env.output_parsed)
        THEN [thrown |-> FALSE, message |-> <<>>, val |-> env.output_parsed]
      ELSE IF got.thrown
        THEN [thrown |-> TRUE, message |-> TypeError, val |-> NullState]
      ELSE IF got.text = <<>>
        THEN [thrown |-> FALSE, message |-> <<>>, val |-> NullState]
      ELSE IF ~pr.ok
        THEN [thrown |-> TRUE, message |-> CouldNotParse, val |-> NullState]
      ELSE [thrown |-> FALSE, message |-> <<>>, val |-> AsState(pr.val)]

-----------------------------------------------------------------------------
(* The latest Cloudflare handler ("cf2"): analyze.js 494-689 *)

\* lines 584-615: correct the extracted state, then issue the self-check
Cf2Corrections(st, errText) ==
  CallNext("selfcheck", enforceDeterministicCorrections(st), errText)

\* line 572 on: nothing extracted by the strict attempt, try extractLoose
Cf2Fallback(st, errText) == CallNext("loose", st, errText)

\* lines 495-557, up to the first model call
Cf2Begin(up, sm) ==
  IF up = "malformed" THEN Respond(ServerError(TypeError))
  ELSE IF up = "none" THEN Respond(NoImageResponse)
  ELSE IF sm THEN CallNext("strict", NullState, NullS)
  ELSE Cf2Fallback(NullState, NullS)

Cf2StartStep == Cf2Begin(upload, strictMode)

\* lines 559-572, after the strict call returned
Cf2StrictStep(r) ==
  IF r.t = "throw" THEN Respond(ServerError(FetchFailed))
  ELSE IF ~r.ok THEN Cf2Fallback(NullState, Str(r.errText))
  ELSE IF ~r.jsonOk THEN Respond(ServerError(BodyNotJson))
  ELSE LET parsed == r.env.output_parsed
           got == getOutputText(r.env)
           pr == parseJsonLoose(Str(got.text))
           st == IF Truthy(parsed) THEN parsed
                 ELSE IF got.text # <<>> /\ pr.ok THEN AsState(pr.val)
                 ELSE parsed
       IN  IF ~Truthy(parsed) /\ got.thrown
             THEN Respond(ServerError(TypeError))
           ELSE IF Truthy(st) THEN Cf2Corrections(st, NullS)
           ELSE Cf2Fallback(st, NullS)

\* extractLoose after its call returned: lines 486-490
extractLoose(r) ==
  LET got == getOutputText(r.env)
      pr == parseJsonLoose(Str(got.text))
  IN  IF r.t = "throw"
        THEN [thrown |-> TRUE, message |-> FetchFailed, val |-> NullState]
      ELSE IF ~r.ok
        THEN [thrown |-> FALSE, message |-> <<>>, val |-> NullState]
      ELSE IF ~r.jsonOk
        THEN [thrown |-> TRUE, message |-> BodyNotJson, val |-> NullState]
      ELSE IF got.thrown
        THEN [thrown |-> TRUE, message |-> TypeError, val |-> NullState]
      ELSE IF got.text = <<>> \/ ~pr.ok
        THEN [thrown |-> FALSE, message |-> <<>>, val |-> NullState]
      ELSE [thrown |-> FALSE, message |-> <<>>, val |-> AsState(pr.val)]

StrictAndLooseFailed == <<"Strict & loose extraction failed">>

\* lines 573-581, after extractLoose returned
Cf2LooseStep(r, errText) ==
  LET loose == extractLoose(r)
  IN  IF loose.thrown THEN Respond(ServerError(loose.message))
      ELSE IF ~Truthy(loose.val)
        THEN Respond(ErrorResponse(500, "OpenAI extraction error",
                       IF TruthyS(errText) THEN errText.s
                       ELSE StrictAndLooseFailed))
      ELSE Cf2Corrections(loose.val, errText)

\* Cf2SelfCheckStep with a failed self-check call treated as fatal
Cf2SelfCheckStep_fatalOnError(r, st, errText) ==
  LET corrected == CorrectedState(r.env)
  IN  IF r.t = "throw" THEN Respond(ServerError(FetchFailed))
      ELSE IF ~r.ok
        THEN Respond(ErrorResponse(500, "OpenAI self-check error", r.errText))
      ELSE IF ~r.jsonOk THEN Respond(ServerError(BodyNotJson))
      ELSE IF corrected.thrown THEN Respond(ServerError(corrected.message))
      ELSE IF Truthy(corrected.val)
        THEN CallNext("strategy",
                      enforceDeterministicCorrections(corrected.val), errText)
      ELSE CallNext("strategy", st, errText)

\* lines 617-665, after the self-check call returned
Cf2SelfCheckStep(r, st, errText) ==
  LET corrected == CorrectedState(r.env)
  IN  IF r.t = "throw" THEN Respond(ServerError(FetchFailed))
      ELSE IF ~r.ok THEN CallNext("strategy", st, errText)
      ELSE IF ~r.jsonOk THEN Respond(ServerError(BodyNotJson))
      ELSE IF corrected.thrown THEN Respond(ServerError(corrected.message))
      ELSE IF Truthy(corrected.val)
        THEN CallNext("strategy",
                      enforceDeterministicCorrections(corrected.val), errText)
      ELSE CallNext("strategy", st, errText)

-----------------------------------------------------------------------------
(* The first Cloudflare handler ("cf1"): analyze.js 102-282 *)

\* lines 103-159
Cf1Begin(up) ==
  IF up = "malformed" THEN Respond(ServerError(TypeError))
  ELSE IF up = "none" THEN Respond(NoImageResponse)
  ELSE CallNext("extraction", UndefState, NullS)

Cf1StartStep == Cf1Begin(upload)

\* lines 176-208: the shape check, then the self-check call
Cf1ShapeCheck(st) ==
  IF ~ShapeOk(st) THEN Respond(IncompleteExtraction(st))
  ELSE CallNext("selfcheck", st, NullS)

\* lines 161-178, after the extraction call returned
Cf1ExtractionStep(r) ==
  IF r.t = "throw" THEN Respond(ServerError(FetchFailed))
  ELSE IF ~r.ok
    THEN Respond(ErrorResponse(500, "OpenAI extraction error", r.errText))
  ELSE IF ~r.jsonOk THEN Respond(ServerError(BodyNotJson))
  ELSE LET parsed == r.env.output_parsed
           got == getOutputText(r.env)
           pr == parseJsonLoose(Str(got.text))
       IN  IF Truthy(parsed) THEN Cf1ShapeCheck(parsed)
           ELSE IF got.thrown THEN Respond(ServerError(TypeError))
           ELSE IF got.text = <<>>
             THEN Respond(VisionParseFailure(Str(got.text)))
           ELSE IF ~pr.ok THEN Respond(ServerError(CouldNotParse))
           ELSE Cf1ShapeCheck(AsState(pr.val))

\* lines 210-258, after the self-check call returned
Cf1SelfCheckStep(r, st) ==
  LET corrected == CorrectedState(r.env)
  IN  IF r.t = "throw" THEN Respond(ServerError(FetchFailed))
      ELSE IF ~r.ok THEN CallNext("strategy", st, NullS)
      ELSE IF ~r.jsonOk THEN Respond(ServerError(BodyNotJson))
      ELSE IF corrected.thrown THEN Respond(ServerError(corrected.message))
      ELSE IF Truthy(corrected.val)
        THEN CallNext("strategy", corrected.val, NullS)
      ELSE CallNext("strategy", st, NullS)

-----------------------------------------------------------------------------
(* The Express handler: server.mjs 137-239.  client.responses.create       *)
(* raises on a transport failure, on a non-2xx status (the error carries   *)
(* the status) and on a body that is not JSON.                             *)

\* lines 229-233: the catch; status is err.status or 500
ExpressCatch(status, message) ==
  ErrorResponse(IF status # 0 THEN status ELSE 500, "Server error", message)

\* what create() raises for reply r, or no throw
ExpressCreate(r) ==
  IF r.t = "throw"
    THEN [thrown |-> TRUE, resp |-> ExpressCatch(0, FetchFailed)]
  ELSE IF ~r.ok
    THEN [thrown |-> TRUE, resp |-> ExpressCatch(r.status, r.errText)]
  ELSE IF ~r.jsonOk
    THEN [thrown |-> TRUE, resp |-> ExpressCatch(0, BodyNotJson)]
  ELSE [thrown |-> FALSE, resp |-> NoResponse]

\* x.output_text || ''
OutputTextOrEmpty(env) ==
  IF TruthyS(env.output_text) THEN env.output_text ELSE Str(<<>>)

\* what readFile raises when the upload cannot be read
ReadFailed == <<"ENOENT">>

\* lines 138-174
ExpressBegin(up) ==
  IF up = "none" THEN Respond(NoImageResponse)
  ELSE IF up = "unreadable" THEN Respond(ExpressCatch(0, ReadFailed))
  ELSE CallNext("extraction", UndefState, NullS)

\* ExpressStartStep without the check of req.file
ExpressStartStep_noFileCheck == CallNext("extraction", UndefState, NullS)

ExpressStartStep == ExpressBegin(upload)

\* lines 176-218, after the extraction call returned
ExpressExtractionStep(r) ==
  LET created == ExpressCreate(r)
      raw == OutputTextOrEmpty(r.env)
      pr == parseJsonLoose(raw)
  IN  IF created.thrown THEN Respond(created.resp)
      ELSE IF ~pr.ok THEN Respond(VisionParseFailure(raw))
      ELSE IF ~ShapeOk(AsState(pr.val))
        THEN Respond(IncompleteExtraction(AsState(pr.val)))
      ELSE CallNext("strategy", AsState(pr.val), NullS)

\* lines 220-233, after the strategy call returned
ExpressStrategyStep(r, st) ==
  LET created == ExpressCreate(r)
      stratRaw == OutputTextOrEmpty(r.env)
      rec == parseJsonLoose(stratRaw)
  IN  IF created.thrown THEN Respond(created.resp)
      ELSE IF ~rec.ok THEN Respond(StrategyParseFailure(stratRaw, st))
      ELSE IF IsNullish(rec.val)               \* rec.recommendation on null
        THEN Respond(ExpressCatch(0, TypeError))
      ELSE Respond(SuccessResponse(st, rec.val))

-----------------------------------------------------------------------------
(* The request as a state machine *)

Handlers == {"express", "cf1", "cf2"}

Uploads == {"none", "image", "malformed", "unreadable"}

\* a model call: its kind, the state serialized into the request (for the
\* self-check and the strategy call) and the reply once it has returned
Call(kind, st) ==
  [kind |-> kind,
   payload |-> IF kind \in {"selfcheck", "strategy"} THEN st ELSE UndefState,
   reply |-> PendingReply]

\* the reply of the pending call, recorded
Replied(r) ==
  IF calls = <<>> THEN calls ELSE [calls EXCEPT ![Len(calls)].reply = r]

\* the unlink written as the last statement of the try block instead: it
\* is reached when the success response has been sent, and on no other path
finallyUnlinks_onSuccessOnly(o) ==
  IF o.next = "done" /\ handler = "express" /\ upload # "none"
       /\ o.resp.status = 200
    THEN 1 ELSE 0

\* the finally of the Express handler (server.mjs 234-238), run when the
\* handler is left: the unlink attempts it makes
finallyUnlinks(o) ==
  IF o.next = "done" /\ handler = "express" /\ upload # "none"
    THEN 1 ELSE 0

\* take the result o of a step that ran after reply r
Take(o, r) ==
  /\ pc' = o.next
  /\ calls' = IF o.next = "done" THEN Replied(r)
              ELSE Append(Replied(r), Call(o.next, o.state))
  /\ state' = IF o.next = "done" THEN state ELSE o.state
  /\ strictErrorText' = IF o.next = "done" THEN strictErrorText
                        ELSE o.strictErrorText
  /\ response' = o.resp
  /\ unlinks' = unlinks + finallyUnlinks(o)
  /\ UNCHANGED <<handler, strictMode, upload>>
  /\ UNCHANGED harnessVars

CorrectorIdle ==
  /\ inp = UndefState
  /\ out1 = UndefState
  /\ out2 = UndefState
  /\ raised = FALSE
  /\ cpc = 0

\* What parseJsonLoose raises for s. The errors are built by new Error(msg)
\* (lines 299, 306) or come from JSON.parse on the slice (line 305); none
\* is given a property holding s, so raw is always undefined. The text of
\* the SyntaxError of JSON.parse is the engine's: it may or may not quote
\* the text it was given, the slice.
NoError == [name |-> "", message |-> "", quoted |-> <<>>, raw |-> UndefS]

parseJsonLooseErrors(s) ==
  IF parseJsonLoose(s).ok THEN {NoError}
  ELSE IF ~TruthyS(s) \/ s.k # "str"
    THEN {[name |-> "Error", message |-> "Empty response",
           quoted |-> <<>>, raw |-> UndefS]}
  ELSE LET t == CleanFences(s.s)
           a == IndexOf(t, "{")
           b == LastIndexOf(t, "}")
       IN  IF a # 0 /\ b > a
             THEN {[name |-> "SyntaxError", message |-> "engine text",
                    quoted |-> q, raw |-> UndefS] :
                   q \in {<<>>, SubSeq(t, a, b)}}
             ELSE {[name |-> "Error", message |-> "Could not parse JSON",
                    quoted |-> <<>>, raw |-> UndefS]}

ParserIdle ==
  /\ pin = ParserInput(<<>>, <<>>, <<>>)
  /\ pout = ParseFail
  /\ perr = NoError
  /\ ppc = 0

CollectorIdle ==
  /\ gin = EmptyEnvelope
  /\ gout = [thrown |-> FALSE, text |-> <<>>]
  /\ gpc = 0

\* the requests served at once
MaxRequests == 2

Requests == 1..MaxRequests

\* scope 0 is the module's, scope i the i-th invocation's
Scopes == 0..MaxRequests

NoLocals == [state |-> UndefState, strictErrorText |-> NullS]

Request(up) ==
  [upload |-> up, pc |-> "start", replies |-> <<>>, response |-> NoResponse,
   interleaved |-> FALSE]

PairIdle ==
  /\ reqs = [i \in Requests |-> Request("none")]
  /\ scopes = [s \in Scopes |-> NoLocals]
  /\ files = {}

HarnessIdle == CorrectorIdle /\ ParserIdle /\ CollectorIdle /\ PairIdle

\* multer hands a malformed body to the error handler of Express, never to
\* the route; only the Express handler reads the upload from a file;
\* STRICT_MODE is read by the latest Cloudflare handler only
Init ==
  /\ handler \in Handlers
  /\ upload \in Uploads
  /\ handler = "express" => upload # "malformed"
  /\ handler # "express" => upload # "unreadable"
  /\ strictMode \in BOOLEAN
  /\ handler # "cf2" => strictMode = TRUE
  /\ pc = "start"
  /\ state = UndefState
  /\ strictErrorText = NullS
  /\ calls = <<>>
  /\ response = NoResponse
  /\ unlinks = 0
  /\ HarnessIdle

Cf2Start == handler = "cf2" /\ pc = "start" /\ Take(Cf2StartStep, PendingReply)

Cf2StrictReturn ==
  /\ handler = "cf2" /\ pc = "strict"
  /\ \E r \in ExtractionReplies : Take(Cf2StrictStep(r), r)

Cf2LooseReturn ==
  /\ handler = "cf2" /\ pc = "loose"
  /\ \E r \in ExtractionReplies : Take(Cf2LooseStep(r, strictErrorText), r)

Cf2SelfCheckReturn ==
  /\ handler = "cf2" /\ pc = "selfcheck"
  /\ \E r \in SelfCheckReplies :
       Take(Cf2SelfCheckStep(r, state, strictErrorText), r)

Cf2StrategyReturn ==
  /\ handler = "cf2" /\ pc = "strategy"
  /\ \E r \in StrategyReplies : Take(StrategyStep(r, state), r)

Cf1Start == handler = "cf1" /\ pc = "start" /\ Take(Cf1StartStep, PendingReply)

Cf1ExtractionReturn ==
  /\ handler = "cf1" /\ pc = "extraction"
  /\ \E r \in ExtractionReplies : Take(Cf1ExtractionStep(r), r)

Cf1SelfCheckReturn ==
  /\ handler = "cf1" /\ pc = "selfcheck"
  /\ \E r \in SelfCheckReplies : Take(Cf1SelfCheckStep(r, state), r)

Cf1StrategyReturn ==
  /\ handler = "cf1" /\ pc = "strategy"
  /\ \E r \in StrategyReplies : Take(StrategyStep(r, state), r)

ExpressStart ==
  handler = "express" /\ pc = "start" /\ Take(ExpressStartStep, PendingReply)

ExpressExtractionReturn ==
  /\ handler = "express" /\ pc = "extraction"
  /\ \E r \in ExtractionReplies : Take(ExpressExtractionStep(r), r)

ExpressStrategyReturn ==
  /\ handler = "express" /\ pc = "strategy"
  /\ \E r \in StrategyReplies : Take(ExpressStrategyStep(r, state), r)

Next ==
  \/ Cf2Start
  \/ Cf2StrictReturn
  \/ Cf2LooseReturn
  \/ Cf2SelfCheckReturn
  \/ Cf2StrategyReturn
  \/ Cf1Start
  \/ Cf1ExtractionReturn
  \/ Cf1SelfCheckReturn
  \/ Cf1StrategyReturn
  \/ ExpressStart
  \/ ExpressExtractionReturn
  \/ ExpressStrategyReturn

Spec == Init /\ [][Next]_vars

\* The runtime invokes the handler, and every external call returns a
\* response or raises: the continuation that waits for it is then run.
LiveSpec == Spec /\ WF_vars(Next)

-----------------------------------------------------------------------------
(* Corrector harness: the function applied once, then again to its result *)

HandlerIdle ==
  /\ handler = "cf2"
  /\ strictMode = TRUE
  /\ upload = "none"
  /\ pc = "idle"
  /\ state = UndefState
  /\ strictErrorText = NullS
  /\ calls = <<>>
  /\ response = NoResponse
  /\ unlinks = 0

CorrectorInit ==
  /\ HandlerIdle
  /\ PairIdle
  /\ ParserIdle
  /\ CollectorIdle
  /\ inp \in CorrectorInputs
  /\ out1 = UndefState
  /\ out2 = UndefState
  /\ raised = FALSE
  /\ cpc = 0

ApplyOnce ==
  /\ cpc = 0
  /\ out1' = correctorCall(inp).value
  /\ raised' = correctorCall(inp).raised
  /\ cpc' = 1
  /\ UNCHANGED <<inp, out2>>
  /\ UNCHANGED <<handlerVars, pairVars, parserVars, collectorVars>>

ApplyTwice ==
  /\ cpc = 1
  /\ out2' = correctorCall(out1).value
  /\ raised' = (raised \/ correctorCall(out1).raised)
  /\ cpc' = 2
  /\ UNCHANGED <<inp, out1>>
  /\ UNCHANGED <<handlerVars, pairVars, parserVars, collectorVars>>

CorrectorNext == ApplyOnce \/ ApplyTwice

CorrectorSpec == CorrectorInit /\ [][CorrectorNext]_vars

-----------------------------------------------------------------------------
(* Parser harness: parseJsonLoose applied to one argument *)

ParserInit ==
  /\ HandlerIdle
  /\ PairIdle
  /\ CorrectorIdle
  /\ CollectorIdle
  /\ \/ \E q \in SeqsUpTo(Pieces, MaxProse) :
          \E c \in 0..Len(q) : \E mid \in Mids : pin = SplitText(q, c, mid)
     \/ pin \in OtherParserInputs
  /\ pout = ParseFail
  /\ perr = NoError
  /\ ppc = 0

Parse ==
  /\ ppc = 0
  /\ pout' = parseJsonLoose(pin.s)
  /\ perr' \in parseJsonLooseErrors(pin.s)
  /\ ppc' = 1
  /\ UNCHANGED pin
  /\ UNCHANGED <<handlerVars, pairVars, correctorVars, collectorVars>>

ParserSpec == ParserInit /\ [][Parse]_vars

-----------------------------------------------------------------------------
(* Collector harness: getOutputText applied to one envelope *)

CollectorInit ==
  /\ HandlerIdle
  /\ PairIdle
  /\ CorrectorIdle
  /\ ParserIdle
  /\ \/ \E q \in SeqsUpTo(PartValues, MaxParts) :
          \E c \in 0..Len(q) : \E f \in Fillers :
            \E ot \in {UndefS, Str(<<"\n">>)} :
              gin = Envelope(ot, SplitOutput(q, c, f))
     \/ gin \in OtherCollectorInputs
  /\ gout = [thrown |-> FALSE, text |-> <<>>]
  /\ gpc = 0

Collect ==
  /\ gpc = 0
  /\ gout' = getOutputText(gin)
  /\ gpc' = 1
  /\ UNCHANGED gin
  /\ UNCHANGED <<handlerVars, pairVars, correctorVars, parserVars>>

CollectorSpec == CollectorInit /\ [][Collect]_vars

-----------------------------------------------------------------------------
(* Concurrent requests: one deployment (handler, strictMode) serves        *)
(* MaxRequests requests at once.  A step of the runtime runs the           *)
(* continuation of one request, chosen freely, from the return of its      *)
(* pending call to its next await.                                          *)

\* the handler's locals declared at module level: one binding shared by
\* all invocations
ScopeOf_module(i) == 0

\* state and strictErrorText are declared with let inside the handler
\* (analyze.js 169, 513-514; server.mjs 177): each invocation has its own
ScopeOf(i) == i

\* req.file.path: multer writes each upload under a name of its own
FileOf(i) == i

Locals(i) == scopes[ScopeOf(i)]

\* the first continuation of handler h for upload up
Begin(h, up, sm) ==
  CASE h = "cf2" -> Cf2Begin(up, sm)
    [] h = "cf1" -> Cf1Begin(up)
    [] OTHER -> ExpressBegin(up)

\* the continuation of handler h at position p after reply r
Continue(h, p, r, st, errText) ==
  CASE h = "cf2" /\ p = "strict" -> Cf2StrictStep(r)
    [] h = "cf2" /\ p = "loose" -> Cf2LooseStep(r, errText)
    [] h = "cf2" /\ p = "selfcheck" -> Cf2SelfCheckStep(r, st, errText)
    [] h = "cf1" /\ p = "extraction" -> Cf1ExtractionStep(r)
    [] h = "cf1" /\ p = "selfcheck" -> Cf1SelfCheckStep(r, st)
    [] h = "express" /\ p = "extraction" -> ExpressExtractionStep(r)
    [] h = "express" /\ p = "strategy" -> ExpressStrategyStep(r, st)
    [] OTHER -> StrategyStep(r, st)

\* the replies a call made at position p may get
PairReplies(p) ==
  CASE p = "selfcheck" -> {ErrorReply(500, <<"quota">>), ParsedReply(StateK2)}
    [] p = "strategy" -> {TextReply(<<"{", "R", "}">>), TextReply(Garbage)}
    [] OTHER -> {ErrorReply(500, <<"quota">>), TextReply(ObjectText("K1"))}

\* what readFile gives request i: the upload, unless its file is gone
UploadSeen(i) ==
  IF handler = "express" /\ reqs[i].upload = "image" /\ FileOf(i) \notin files
    THEN "unreadable" ELSE reqs[i].upload

InFlight(j) == reqs[j].pc \notin {"start", "done"}

\* take the result o of a continuation of request i; rs are the replies
\* the request has received
Settle(i, o, rs) ==
  /\ reqs' = [reqs EXCEPT ![i] =
                [upload |-> reqs[i].upload, pc |-> o.next, replies |-> rs,
                 response |-> o.resp,
                 interleaved |-> \/ reqs[i].interleaved
                                 \/ \E j \in Requests \ {i} : InFlight(j)]]
  /\ scopes' = IF o.next = "done" THEN scopes
               ELSE [scopes EXCEPT ![ScopeOf(i)] =
                       [state |-> o.state,
                        strictErrorText |-> o.strictErrorText]]
  /\ files' = IF o.next = "done" /\ handler = "express"
                  /\ reqs[i].upload # "none"
                THEN files \ {FileOf(i)} ELSE files
  /\ UNCHANGED <<handlerVars, correctorVars, parserVars, collectorVars>>

PairInit ==
  /\ handler \in Handlers
  /\ strictMode \in BOOLEAN
  /\ handler # "cf2" => strictMode = TRUE
  /\ upload = "none"
  /\ pc = "idle"
  /\ state = UndefState
  /\ strictErrorText = NullS
  /\ calls = <<>>
  /\ response = NoResponse
  /\ unlinks = 0
  /\ CorrectorIdle /\ ParserIdle /\ CollectorIdle
  /\ \E u \in [Requests -> Uploads] :
       /\ \A i \in Requests :
            /\ handler = "express" => u[i] # "malformed"
            /\ handler # "express" => u[i] # "unreadable"
       /\ reqs = [i \in Requests |-> Request(u[i])]
       /\ files = {FileOf(i) : i \in {j \in Requests : u[j] # "none"}}
  /\ scopes = [s \in Scopes |-> NoLocals]

PairStart(i) ==
  /\ reqs[i].pc = "start"
  /\ Settle(i, Begin(handler, UploadSeen(i), strictMode), <<>>)

PairReturn(i) ==
  /\ InFlight(i)
  /\ \E r \in PairReplies(reqs[i].pc) :
       Settle(i, Continue(handler, reqs[i].pc, r, Locals(i).state,
                          Locals(i).strictErrorText),
              Append(reqs[i].replies, r))

PairNext == \E i \in Requests : PairStart(i) \/ PairReturn(i)

PairSpec == PairInit /\ [][PairNext]_vars

\* the response of handler h for upload up and replies rs when the request
\* is the only one served: no response yet if rs runs out before the end
RECURSIVE HandledAlone(_, _, _, _, _, _, _)
HandledAlone(h, p, up, sm, st, errText, rs) ==
  IF p = "start"
    THEN LET o == Begin(h, up, sm)
         IN  IF o.next = "done" THEN o.resp
             ELSE HandledAlone(h, o.next, up, sm, o.state,
                               o.strictErrorText, rs)
  ELSE IF rs = <<>> THEN NoResponse
  ELSE LET o == Continue(h, p, Head(rs), st, errText)
       IN  IF o.next = "done" THEN o.resp
           ELSE HandledAlone(h, o.next, up, sm, o.state,
                             o.strictErrorText, Tail(rs))

\* C23: when requests are handled concurrently with their steps
\* interleaved in any order, the response of each is the response it would
\* get if handled alone with the same upload and the same results of its
\* own external calls
C23_RequestsIndependent ==
  \A i \in Requests :
    reqs[i].pc # "start"
      => reqs[i].response =
           HandledAlone(handler, "start", reqs[i].upload, strictMode,
                        UndefState, NullS, reqs[i].replies)

\* two requests whose steps were interleaved have ended with different
\* responses
C23_Witness ==
  /\ \A i \in Requests : reqs[i].pc = "done" /\ reqs[i].interleaved
  /\ reqs[1].response.status = 200
  /\ reqs[2].response.status = 500
  /\ Len(reqs[1].replies) >= 2 /\ Len(reqs[2].replies) >= 2

-----------------------------------------------------------------------------
(* Claims about the handlers, checked under Spec *)

HasCall(kind) == \E i \in DOMAIN calls : calls[i].kind = kind

CallOf(kind) == calls[CHOOSE i \in DOMAIN calls : calls[i].kind = kind]

Returned(kind) == HasCall(kind) /\ CallOf(kind).reply.t # "pending"

ExtractionKinds == {"strict", "loose", "extraction"}

\* the reply is a success response without output_parsed whose collected
\* text is non-empty and does not parse
UnparseableText(r) ==
  /\ r.t = "http" /\ r.ok /\ r.jsonOk
  /\ ~Truthy(r.env.output_parsed)
  /\ ~getOutputText(r.env).thrown
  /\ getOutputText(r.env).text # <<>>
  /\ ~parseJsonLoose(Str(getOutputText(r.env).text)).ok

\* the reply carries an object: output_parsed, or text that parses to one
YieldsObject(r) ==
  /\ r.t = "http" /\ r.ok /\ r.jsonOk
  /\ \/ IsObject(r.env.output_parsed)
     \/ /\ ~Truthy(r.env.output_parsed)
        /\ ~getOutputText(r.env).thrown
        /\ parseJsonLoose(Str(getOutputText(r.env).text)).ok
        /\ parseJsonLoose(Str(getOutputText(r.env).text)).val.k = "obj"

\* the strategy request follows the self-check and carries the state the
\* self-check request carried
StrategyCarriesPreSelfCheckState ==
  /\ HasCall("strategy")
  /\ CallOf("strategy").payload = CallOf("selfcheck").payload

\* C1: in the latest Cloudflare handler, a self-check reply that is a
\* success response with no output_parsed and non-empty unparseable text
\* does not fail the request: the strategy request is issued with the
\* corrected extraction result, which is also the state of a success
\* response
C1_UnparseableSelfCheckSkipped ==
  (handler = "cf2" /\ Returned("selfcheck")
     /\ UnparseableText(CallOf("selfcheck").reply))
    => /\ StrategyCarriesPreSelfCheckState
       /\ response.status = 200
            => response.state = CallOf("selfcheck").payload

\* C2: in the latest Cloudflare handler, a self-check reply with a
\* non-success status leaves the state as it was and the strategy request
\* is issued with exactly that state
C2_SelfCheckErrorKeepsState ==
  (handler = "cf2" /\ Returned("selfcheck")
     /\ CallOf("selfcheck").reply.t = "http"
     /\ ~CallOf("selfcheck").reply.ok)
    => /\ StrategyCarriesPreSelfCheckState
       /\ pc = "strategy" => state = CallOf("selfcheck").payload
       /\ response.status = 200
            => response.state = CallOf("selfcheck").payload

\* C2 witness: the self-check answered 500, the strategy request went out
\* with the corrected extraction (street recomputed to flop) and the
\* request succeeded with that state
C2_Witness ==
  /\ handler = "cf2"
  /\ Returned("selfcheck")
  /\ CallOf("selfcheck").reply = ErrorReply(500, <<"quota">>)
  /\ CallOf("selfcheck").payload = enforceDeterministicCorrections(StateK1)
  /\ CallOf("selfcheck").payload # StateK1
  /\ response.status = 200
  /\ response.state = CallOf("selfcheck").payload

\* C3: no handler returns a success response whose state lacks table, lacks
\* hero or has players that is no array, and no strategy request is issued
\* for such a state
C3_SuccessStateHasShape ==
  /\ response.status = 200 => ShapeOk(response.state)
  /\ HasCall("strategy") => ShapeOk(CallOf("strategy").payload)

\* C4: in every handler a request without an image ends with status 400
\* and the error No image uploaded, and no model call is issued at any
\* point of the request
C4_NoImageNoCalls ==
  upload = "none"
    => /\ calls = <<>>
       /\ pc \in {"start", "done"}
       /\ pc = "done" => /\ response.status = 400
                         /\ response.error = "No image uploaded"

\* C4 witness: a request without an image has been answered
C4_Witness ==
  /\ upload = "none"
  /\ pc = "done"
  /\ response = NoImageResponse
  /\ calls = <<>>

\* the strict attempt is over, or was skipped
PastStrict == upload = "image" /\ pc \notin {"start", "strict"}

\* the strict attempt was not made, or its reply carries no object
StrictGaveNothing ==
  ~strictMode \/ (Returned("strict") /\ ~YieldsObject(CallOf("strict").reply))

\* C5: in the latest Cloudflare handler the loose request is issued if and
\* only if strict mode is disabled or the strict attempt errored or yielded
\* no object
C5_LooseIffStrictGaveNothing ==
  (handler = "cf2" /\ PastStrict) => (HasCall("loose") <=> StrictGaveNothing)

\* C6: in the latest Cloudflare handler, when neither attempt yields an
\* object the request ends with status 500, error OpenAI extraction error
\* and non-empty details (the strict error text when there is one, else the
\* fixed message), and neither the self-check nor the strategy request is
\* issued
C6_NoObjectIsExtractionError ==
  (/\ handler = "cf2" /\ upload = "image" /\ pc = "done"
   /\ StrictGaveNothing
   /\ ~(Returned("loose") /\ YieldsObject(CallOf("loose").reply)))
    => /\ response.status = 500
       /\ response.error = "OpenAI extraction error"
       /\ response.details # <<>>
       /\ response.details =
            IF Returned("strict") /\ CallOf("strict").reply.errText # <<>>
              THEN CallOf("strict").reply.errText
              ELSE StrictAndLooseFailed
       /\ ~HasCall("selfcheck")
       /\ ~HasCall("strategy")

\* C7: in all three handlers, when every extraction attempt of the request
\* returned non-empty text that does not parse, the response is a 422
\* parse failure carrying the raw text
C7_UnparseableExtractionIs422 ==
  (/\ pc = "done"
   /\ \E i \in DOMAIN calls : calls[i].kind \in ExtractionKinds
   /\ \A i \in DOMAIN calls :
        calls[i].kind \in ExtractionKinds => UnparseableText(calls[i].reply))
    => /\ response.status = 422
       /\ response.raw = Str(getOutputText(calls[1].reply.env).text)

\* the reply is a success response whose collected text is empty or does
\* not parse (handlers on Cloudflare)
EmptyOrUnparseableText(r) ==
  /\ r.t = "http" /\ r.ok /\ r.jsonOk
  /\ ~getOutputText(r.env).thrown
  /\ \/ getOutputText(r.env).text = <<>>
     \/ ~parseJsonLoose(Str(getOutputText(r.env).text)).ok

\* C15: in the handlers on Cloudflare, a strategy reply with a non-success
\* status ends the request with 500 OpenAI strategy error and the provider
\* text as details; a strategy reply whose collected text is empty or does
\* not parse ends it with 422 Failed to parse strategy JSON carrying that
\* text and the state; none of these is a success response
C15_StrategyFailures ==
  (handler # "express" /\ Returned("strategy"))
    => /\ (CallOf("strategy").reply.t = "http" /\ ~CallOf("strategy").reply.ok)
            => response = ErrorResponse(500, "OpenAI strategy error",
                                        CallOf("strategy").reply.errText)
       /\ EmptyOrUnparseableText(CallOf("strategy").reply)
            => response =
                 StrategyParseFailure(
                   Str(getOutputText(CallOf("strategy").reply.env).text),
                   CallOf("strategy").payload)

\* C15 witness: the strategy call of the latest handler answered with text
\* that is not JSON and the request ended with the 422 carrying that text
\* and the state sent to the strategy call
C15_Witness ==
  /\ handler = "cf2"
  /\ Returned("strategy")
  /\ CallOf("strategy").reply = TextReply(Garbage)
  /\ response.status = 422
  /\ response.error = "Failed to parse strategy JSON"
  /\ response.raw = Str(Garbage)
  /\ response.hasState
  /\ response.state = CallOf("strategy").payload

\* the strategy text as the handler reads it
StrategyText(r) ==
  IF handler = "express" THEN OutputTextOrEmpty(r.env)
  ELSE Str(getOutputText(r.env).text)

\* the strategy reply is a success response whose text parses as JSON
StrategyTextParses(r) ==
  /\ r.t = "http" /\ r.ok /\ r.jsonOk
  /\ handler # "express" => ~getOutputText(r.env).thrown
  /\ parseJsonLoose(StrategyText(r)).ok

\* C16: every success response of a handler contains both a state and a
\* recommendation, and whenever the strategy text parses as JSON the
\* response is a success carrying a defined recommendation and the state
C16_SuccessHasRecommendation ==
  /\ response.status = 200
       => response.hasState /\ response.hasRecommendation
  /\ (Returned("strategy") /\ StrategyTextParses(CallOf("strategy").reply))
       => /\ response.status = 200
          /\ response.hasState
          /\ response.hasRecommendation

\* C20: in the Express handler, for every request that uploaded a file,
\* the deletion of the temporary file has been attempted exactly once when
\* the handler has finished, whatever the path (parse failure, incomplete
\* extraction, provider exception, success), and never before nor twice
C20_UnlinkExactlyOnce ==
  (handler = "express" /\ upload # "none")
    => unlinks = IF pc = "done" THEN 1 ELSE 0

\* C20 witness: the strategy call of a request with an upload raised, the
\* request ended as a server error and the file was unlinked once
C20_Witness ==
  /\ handler = "express"
  /\ upload = "image"
  /\ pc = "done"
  /\ Returned("strategy")
  /\ CallOf("strategy").reply = ThrowReply
  /\ response.error = "Server error"
  /\ unlinks = 1

\* the place of a call kind in the order of the latest Cloudflare handler
CallRank(kind) ==
  CASE kind = "strict" -> 1
    [] kind = "loose" -> 2
    [] kind = "selfcheck" -> 3
    [] kind = "strategy" -> 4
    [] OTHER -> 0

\* the calls of the request are in the order strict, loose, self-check,
\* strategy, each kind at most once
CallsInOrder ==
  \A i \in DOMAIN calls : \A j \in DOMAIN calls :
    i < j => /\ CallRank(calls[i].kind) > 0
             /\ CallRank(calls[i].kind) < CallRank(calls[j].kind)

\* every call but the last has returned
OneCallAtATime ==
  \A i \in DOMAIN calls : i < Len(calls) => calls[i].reply.t # "pending"

\* some extraction attempt of the request has returned an object
ExtractionYieldedObject ==
  \E i \in DOMAIN calls :
    /\ calls[i].kind \in ExtractionKinds
    /\ calls[i].reply.t # "pending"
    /\ YieldsObject(calls[i].reply)

\* C21: in the latest Cloudflare handler the model calls of a request are
\* issued one at a time in the order strict, loose, self-check, strategy,
\* each kind at most once, each after the previous one has returned, and
\* the self-check and strategy calls only after an extraction attempt has
\* yielded an object
C21_CallsSequential ==
  handler = "cf2"
    => /\ CallsInOrder
       /\ OneCallAtATime
       /\ (HasCall("selfcheck") \/ HasCall("strategy"))
            => ExtractionYieldedObject

\* the strategy call of the request returned a success status with
\* non-empty text that parsed as JSON
StrategySucceeded ==
  /\ Returned("strategy")
  /\ CallOf("strategy").reply.t = "http"
  /\ CallOf("strategy").reply.ok
  /\ CallOf("strategy").reply.jsonOk
  /\ StrategyText(CallOf("strategy").reply).s # <<>>
  /\ StrategyTextParses(CallOf("strategy").reply)

\* the statuses of the latest Cloudflare handler, and the error field of
\* every response that is no success
Cf2StatusAndError ==
  (handler = "cf2" /\ pc = "done")
    => /\ response.status \in {200, 400, 422, 500}
       /\ response.status # 200 => response.error # ""

\* a success of the latest Cloudflare handler follows a successful
\* strategy call
Cf2SuccessAfterStrategy ==
  (handler = "cf2" /\ pc = "done" /\ response.status = 200)
    => StrategySucceeded

\* C27: every response of the latest Cloudflare handler has a status in
\* {200, 400, 422, 500}; a 200 is produced only in a request where an
\* extraction attempt yielded an object and the strategy call returned a
\* success status with non-empty text that parsed as JSON; every other
\* response has an error field
C27_StatusesAndSuccess ==
  (handler = "cf2" /\ pc = "done")
    => /\ response.status \in {200, 400, 422, 500}
       /\ response.status = 200
            => (ExtractionYieldedObject /\ StrategySucceeded)
       /\ response.status # 200 => response.error # ""

\* C26: in both Cloudflare revisions, when the state before the self-check
\* has table, hero and an array players, the state handed to the strategy
\* call has them too, whatever the self-check call returns
C26_SelfCheckKeepsShape ==
  (/\ handler \in {"cf1", "cf2"}
   /\ HasCall("selfcheck") /\ HasCall("strategy")
   /\ ShapeOk(CallOf("selfcheck").payload))
    => ShapeOk(CallOf("strategy").payload)

\* the value an extraction call of the latest Cloudflare handler yielded:
\* output_parsed or the parsed text for the strict call, the parsed text
\* for the loose call
ExtractedValue(c) ==
  IF c.kind = "strict" /\ Truthy(c.reply.env.output_parsed)
    THEN c.reply.env.output_parsed
    ELSE AsState(parseJsonLoose(Str(getOutputText(c.reply.env).text)).val)

\* the state of a success response is the state sent to the strategy call
Cf2SameState ==
  (handler = "cf2" /\ response.status = 200)
    => response.state = CallOf("strategy").payload

\* the state sent to the self-check is the corrector's output for the
\* value the last extraction call yielded
Cf2SelfCheckGetsCorrected ==
  (handler = "cf2" /\ HasCall("selfcheck"))
    => \E i \in DOMAIN calls :
         /\ calls[i].kind \in ExtractionKinds
         /\ calls[i + 1].kind = "selfcheck"
         /\ calls[i + 1].payload =
              enforceDeterministicCorrections(ExtractedValue(calls[i]))

\* the state sent to the strategy call is the corrector's output for the
\* self-check result when the self-check produced an object, and the state
\* sent to the self-check otherwise
Cf2StrategyGetsCorrected ==
  (handler = "cf2" /\ HasCall("strategy"))
    => CallOf("strategy").payload =
         IF YieldsObject(CallOf("selfcheck").reply)
           THEN enforceDeterministicCorrections(
                  CorrectedState(CallOf("selfcheck").reply.env).val)
           ELSE CallOf("selfcheck").payload

BoardLengthsWithStreet == {0, 3, 4, 5}

HasBoardArray(s) == IsObject(s) /\ IsObject(s.table) /\ IsArray(s.table.board)

\* the street of a success state agrees with the length of its board
Cf2StreetMatchesBoard ==
  (/\ handler = "cf2" /\ response.status = 200
   /\ HasBoardArray(response.state)
   /\ Len(response.state.table.board.a) \in BoardLengthsWithStreet)
    => response.state.table.street =
         StreetByLen(Len(response.state.table.board.a))

\* C24: in the latest Cloudflare handler the state sent to the strategy
\* call and the state of the success response are the same value, that
\* value is the output of enforceDeterministicCorrections for the
\* self-check result when the self-check produced an object and for the
\* extraction result otherwise, and so the street of every success state
\* whose board has 0, 3, 4 or 5 entries matches the board length
C24_SuccessStateIsCorrected ==
  /\ Cf2SameState
  /\ Cf2SelfCheckGetsCorrected
  /\ Cf2StrategyGetsCorrected
  /\ Cf2StreetMatchesBoard

\* the response is structured: the success body, or an object with an
\* error field
Structured(resp) ==
  \/ resp.status = 200 /\ resp.hasState
  \/ resp.status \notin {0, 200} /\ resp.error # ""

\* the request has ended with a structured response
Answered == pc = "done" /\ Structured(response)

\* a response, once sent, is the response of the request
RespondsOnce == [][response # NoResponse => response' = response]_vars

\* C22: provided every external call returns or raises, every invocation
\* of a handler ends, with exactly one response, which is the success body
\* or an object with an error field; no exception leaves the handler
C22_TerminatesWithOneResponse ==
  /\ <>(pc = "done")
  /\ [](pc = "done" => Answered)
  /\ [](pc # "done" => response = NoResponse)
  /\ RespondsOnce

\* a request whose external call raised has ended with its response
C22_Witness ==
  /\ Answered
  /\ \E i \in DOMAIN calls : calls[i].reply.t = "throw"

-----------------------------------------------------------------------------
(* Claims about enforceDeterministicCorrections, checked under             *)
(* CorrectorSpec                                                           *)

\* C8: for every input whose table.board is an array of length 0, 3, 4 or
\* 5, the corrected table.street is preflop, flop, turn or river
\* respectively, whatever the input street and whatever the board's entries
C8_StreetFromBoardLength ==
  (cpc >= 1 /\ HasBoardArray(inp)
     /\ Len(inp.table.board.a) \in BoardLengthsWithStreet)
    => out1.table.street = StreetByLen(Len(inp.table.board.a))

\* C9: for every input whose table.board is an array of a length other
\* than 0, 3, 4 or 5, the corrector leaves table.street as it was
C9_StreetUntouchedOtherLengths ==
  (cpc >= 1 /\ HasBoardArray(inp)
     /\ Len(inp.table.board.a) \notin BoardLengthsWithStreet)
    => out1.table.street = inp.table.street

\* C10: the corrector is idempotent: applying it to its own result changes
\* nothing, for every input (also ones missing table, hero or players and
\* ones with non-numeric strings in numeric fields)
C10_Idempotent == cpc = 2 => out2 = out1

\* C10 witness: a non-numeric pot became NaN on the first application, the
\* first application changed the object, and the second has been applied
C10_Witness ==
  /\ cpc = 2
  /\ inp.table.pot = Str(<<"a", "b">>)
  /\ out1.table.pot = NaNS
  /\ out1 # inp

\* typeof x === 'number' (NaN included)
IsNumberType(v) == v.k \in {"num", "nan"}

\* a field that was null is still null, one that was present and non-null
\* has numeric type
NumericAfter(before, after) ==
  /\ before.k = "null" => after = NullS
  /\ ~IsNullish(before) => IsNumberType(after)

\* C11: after the corrector has run, each of table.pot, table.minRaise,
\* table.maxBet, table.stakes.sb, table.stakes.bb, hero.stack and
\* hero.committedThisStreet that was present and non-null in the input has
\* numeric type, and each that was null is still null
C11_NumericFieldsCoerced ==
  cpc >= 1
    => /\ NumericAfter(inp.table.pot, out1.table.pot)
       /\ NumericAfter(inp.table.minRaise, out1.table.minRaise)
       /\ NumericAfter(inp.table.maxBet, out1.table.maxBet)
       /\ NumericAfter(inp.table.stakes.sb, out1.table.stakes.sb)
       /\ NumericAfter(inp.table.stakes.bb, out1.table.stakes.bb)
       /\ NumericAfter(inp.hero.stack, out1.hero.stack)
       /\ NumericAfter(inp.hero.committedThisStreet,
                       out1.hero.committedThisStreet)

\* one player entry after lines 346-353: position as it was, or null if it
\* was absent; inHand a boolean; seat, stack and committedThisStreet a
\* number or null
PlayerNormalized(before, after) ==
  /\ after.position =
       IF before.position.k = "undef" THEN NullS ELSE before.position
  /\ after.inHand.k = "bool"
  /\ after.seat = NullS \/ IsNumberType(after.seat)
  /\ after.stack = NullS \/ IsNumberType(after.stack)
  /\ after.committedThisStreet = NullS
       \/ IsNumberType(after.committedThisStreet)

\* C12: for every input whose players is an array, every player entry of
\* the result is normalized (position kept or null, inHand a boolean, seat,
\* stack and committedThisStreet a number or null), whatever the rest of
\* the object looks like
C12_PlayersNormalized ==
  (cpc >= 1 /\ IsArray(inp.players))
    => /\ IsArray(out1.players)
       /\ Len(out1.players.a) = Len(inp.players.a)
       /\ \A i \in 1..Len(inp.players.a) :
            PlayerNormalized(inp.players.a[i], out1.players.a[i])

\* C13: after the corrector has been applied to any parsed extraction
\* object, players, hero.hole and table.board are each an array, never
\* absent and never another value
C13_SequencesPresent ==
  (cpc >= 1 /\ IsObject(inp))
    => /\ IsArray(out1.players)
       /\ IsArray(out1.hero.hole)
       /\ IsArray(out1.table.board)

\* C14: the corrector never raises: for every input value (null, a
\* non-object, an object missing table, hero or players, fields of any
\* type) the call returns, and what it returns is its argument: a value
\* that is no object comes back unchanged and an object comes back an object
C14_NeverRaises ==
  cpc >= 1
    => /\ ~raised
       /\ out1.k = inp.k
       /\ ~IsObject(inp) => out1 = inp

\* C14 witness: the corrector was given null, the first statement of the
\* try block threw, and the call returned null
C14_Witness ==
  /\ cpc >= 1
  /\ inp = OfKind(UndefState, "null")
  /\ tryBlock(inp).thrown
  /\ ~raised
  /\ out1 = inp

-----------------------------------------------------------------------------
(* Claims about parseJsonLoose, checked under ParserSpec *)

\* some stretch of the text is a JSON value
ContainsJsonValue(cs) ==
  \E i \in 1..Len(cs) : \E j \in i..Len(cs) : JSONparse(SubSeq(cs, i, j)).ok

Occurs(c, cs) == \E i \in 1..Len(cs) : cs[i] = c

\* C17 as stated: parseJsonLoose returns exactly the object for every
\* input made of one JSON object with fence markers and prose before and
\* after it, prose containing braces included, and fails for every input
\* that contains no JSON value
C17_RecoversEmbeddedObject ==
  ppc = 1
    => /\ pin.mid # <<>> => pout = JSONparse(pin.mid)
       /\ (pin.s.k # "str" \/ ~ContainsJsonValue(pin.s.s)) => ~pout.ok

\* C17 amended: parseJsonLoose returns exactly the object for every input
\* made of one JSON object with fence markers and prose before and after
\* it, provided no { and no [ occurs before the object and no } after it;
\* and it fails for every input that is no string or that contains no JSON
\* value once its fence markers are removed
C17_RecoversObjectBetweenBraceFreeProse ==
  ppc = 1
    => /\ (/\ pin.mid # <<>>
           /\ ~Occurs("{", pin.pre) /\ ~Occurs("[", pin.pre)
           /\ ~Occurs("}", pin.suf))
            => pout = JSONparse(pin.mid)
       /\ (pin.s.k # "str" \/ ~ContainsJsonValue(RemoveFences(pin.s.s)))
            => ~pout.ok

\* C17 witness: the object stands after a fence marker and a stray } and
\* before a stray ], the text as a whole is no JSON, and the slice from the
\* first { to the last } gave the object back
C17_Witness ==
  /\ ppc = 1
  /\ pin = ParserInput(Fence \o <<"}">>, <<"{", "K1", "}">>, <<"]">>)
  /\ ~JSONparse(CleanFences(pin.s.s)).ok
  /\ pout = ParseOk(JsonValue("obj", "K1"))

\* the error carries the string: in a property, or quoted whole in its
\* message
CarriesInput(err, s) ==
  \/ err.raw = s
  \/ s.k = "str" /\ err.quoted # <<>> /\ err.quoted = s.s

\* C25: when every parsing attempt of parseJsonLoose fails, the error it
\* raises carries the original raw input string
C25_ErrorCarriesRawInput ==
  (ppc = 1 /\ ~pout.ok /\ pin.s.k = "str" /\ TruthyS(pin.s))
    => CarriesInput(perr, pin.s)

-----------------------------------------------------------------------------
(* Claims about getOutputText, checked under CollectorSpec *)

\* a string that is not blank
NonBlankString(v) == v.k = "str" /\ Trim(v.s) # <<>>

\* the envelope carries some non-blank text: in output_text, or in a part
\* of the content array of a message of the output array
CarriesText(e) ==
  \/ NonBlankString(e.output_text)
  \/ /\ IsArray(e.output)
     /\ \E i \in DOMAIN e.output.a :
          /\ IsArray(e.output.a[i].content)
          /\ \E j \in DOMAIN e.output.a[i].content.a :
               NonBlankString(e.output.a[i].content.a[j].text)

\* C18: getOutputText never fails: for every envelope (output_text and
\* output of any type, messages and parts that are null or lack content or
\* text) it returns a string, and the string is empty exactly when the
\* envelope carries no non-blank text
C18_CollectorNeverFails ==
  gpc = 1
    => /\ ~gout.thrown
       /\ gout.text = <<>> <=> ~CarriesText(gin)

RECURSIVE TextsFrom(_, _, _)
\* the trimmed non-blank texts of the output from part j of message i on,
\* in message order then part order
TextsFrom(e, i, j) ==
  IF i > Len(e.output.a) THEN <<>>
  ELSE IF ~IsArray(e.output.a[i].content)
            \/ j > Len(e.output.a[i].content.a)
    THEN TextsFrom(e, i + 1, 1)
  ELSE (IF NonBlankString(e.output.a[i].content.a[j].text)
          THEN <<Trim(e.output.a[i].content.a[j].text.s)>> ELSE <<>>)
         \o TextsFrom(e, i, j + 1)

\* C19: getOutputText returns the trimmed output_text when that is a
\* non-blank string; otherwise it returns the trimmed texts of the
\* non-blank text parts of the output messages, in message order then part
\* order, joined by one line break
C19_CollectedText ==
  gpc = 1
    => /\ ~gout.thrown
       /\ gout.text =
            IF NonBlankString(gin.output_text) THEN Trim(gin.output_text.s)
            ELSE IF IsArray(gin.output)
              THEN JoinNewline(TextsFrom(gin, 1, 1))
            ELSE <<>>

====
